---- MODULE Spec2Model ----
(***************************************************************************)
(* The CRUD pages of the billing dashboard (customers, vendors, products,  *)
(* purchases, ledger entries, sale items, purchase items) as one state     *)
(* machine parametrised by the page.  Every page keeps a record set, form  *)
(* data, editingId and a loading flag, and runs three asynchronous         *)
(* handlers (fetch, handleSubmit, handleDelete) against the persistence    *)
(* service.  An await is a suspended handler: an element of inflight.      *)
(***************************************************************************)
EXTENDS Integers, Sequences, FiniteSets, TLC

VARIABLES
    page,       \* which page component is mounted (fixed after Init)
    store,      \* rows of the page's table held by the persistence service
    nextId,     \* next primary key the service hands out
    records,    \* useState: customers / products / purchases / ... (as fetched)
    formData,   \* useState: formData
    editingId,  \* useState: editingId (NullId = null)
    loading,    \* useState: loading
    inflight,   \* suspended handlers, each awaiting exactly one request
    nextOp,     \* number of user operations started so far
    confirmed,  \* what confirm() answered in the last step ("" = not asked)
    toasts,     \* notifications emitted by the last step
    pushed,     \* router.push targets called by the last step
    loaded,     \* selection lists (vendors, products, ...) fetched so far
    fetches,    \* history: number of fetches of the page's table started
    lastApplied,   \* history: which of them set the record set last
    newestApplied, \* history: the latest-started of them that set it
    filters,    \* useState: searchTerm and the page's <Select> filters
    filtered,   \* useState: filteredCustomers / filteredProducts / ...
    stats,      \* useState: stats (ledger, purchases, item pages)
    clock,      \* the browser's clock: instant, time zone, length of the
                \* previous month
    parents,    \* rows of the parent table (sales / purchases) of an item
                \* page held by the persistence service
    faulted     \* history: some request has returned an error so far

vars == <<page, store, nextId, records, formData, editingId, loading,
          inflight, nextOp, confirmed, toasts, pushed, loaded, fetches,
          lastApplied, newestApplied, filters, filtered, stats, clock,
          parents, faulted>>

----------------------------------------------------------------------------
(* Bounds *)

\* user operations (submit / delete) one behaviour may start
MaxOps == 2

\* the same, where every form input is typed (SpecForm)
MaxFormOps == 1

\* the same, where every request is eventually answered (SpecLive)
MaxLiveOps == 2

\* rows of the record set whose list and statistics are displayed (SpecView)
MaxRows == 2

(* Program constants *)

\* editingId = null
NullId == 0

\* result of Number(x) for a non-numeric string
NaN == -1000

\* a field that is undefined in formData (customers: balance)
Undefined == -2000

\* hours in a day: instants are hours since 00:00 UTC of day 0, and a
\* 'YYYY-MM-DD' date is the number of its day
DayHours == 24

\* the UTC day on which the modelled session runs
Today == 40

Pages == {"customers", "vendors", "products", "purchases", "ledger",
          "sale_items", "purchase_items"}

ItemPages == {"sale_items", "purchase_items"}
PartyPages == {"customers", "vendors"}

\* the authenticated user of this browser session
CurrentUser == "u1"

----------------------------------------------------------------------------
(* JavaScript coercions used by the forms *)

\* Number(e.target.value) for the strings a user can type
Number(raw) ==
    CASE raw = ""    -> 0
      [] raw = "0"   -> 0
      [] raw = "-1"  -> -1
      [] raw = "1"   -> 1
      [] raw = "2"   -> 2
      [] raw = "3"   -> 3
      [] OTHER       -> NaN

\* variant: the comparison never holds
Less_Never(x, y) == FALSE

\* x < y for numbers: false when either side is NaN or undefined
Less(x, y) == x \notin {NaN, Undefined} /\ y \notin {NaN, Undefined} /\ x < y

\* x || d for numbers: NaN and 0 are falsy
OrElse(x, d) == IF x = NaN \/ x = 0 \/ x = Undefined THEN d ELSE x

\* s.trim()
Trim(s) ==
    CASE s = " "        -> ""
      [] s = " Widget " -> "Widget"
      [] OTHER          -> s

\* the characters of the strings typed into an email input
Chars(s) ==
    CASE s = "a@b.c"  -> <<"a", "@", "b", ".", "c">>
      [] s = "a@b"    -> <<"a", "@", "b">>
      [] s = "a @b.c" -> <<"a", " ", "@", "b", ".", "c">>
      [] s = "@b.c"   -> <<"@", "b", ".", "c">>
      [] s = "a@b."   -> <<"a", "@", "b", ".">>
      [] s = "a@.c"   -> <<"a", "@", ".", "c">>
      [] OTHER        -> <<>>

\* /^[^\s@]+@[^\s@]+\.[^\s@]+$/ matched against a sequence of characters
RegexMatch(email) ==
    /\ \A k \in 1..Len(email) : email[k] # " "
    /\ Cardinality({k \in 1..Len(email) : email[k] = "@"}) = 1
    /\ \E i \in 2..Len(email) :
         /\ email[i] = "@"
         /\ \E j \in (i + 2)..(Len(email) - 1) : email[j] = "."

EmailOk(s) == RegexMatch(Chars(s))

----------------------------------------------------------------------------
(* Form data per page *)

\* new Date().toISOString().split('T')[0]: the UTC date of instant t
UtcDate(t) == t \div DayHours

\* the useState initial value, which is also what resetForm sets
DefaultForm(p) ==
    CASE p = "customers" ->
           [name |-> "", email |-> "", phone |-> "", address |-> "",
            balance |-> Undefined]
      [] p = "vendors" ->
           [name |-> "", email |-> "", phone |-> "", address |-> "",
            balance |-> 0]
      [] p = "products" ->
           [name |-> "", category |-> "", quantity |-> 0, price |-> 0,
            min_stock |-> 0]
      [] p = "purchases" ->
           [vendor_id |-> "", vendor_name |-> "",
            purchase_date |-> UtcDate(clock.now), subtotal |-> 0, tax |-> 0,
            total |-> 0, status |-> "pending"]
      [] p = "ledger" ->
           [entity_type |-> "customer", entity_id |-> "", entity_name |-> "",
            transaction_type |-> "debit", amount |-> 0]
      [] OTHER ->
           [invoice_id |-> "", product_id |-> "", product_name |-> "",
            quantity |-> 1, price |-> 0, total |-> 0]

\* null in a request or a stored row
Null == "null"

\* x || null and x || '' for strings
OrNull(s) == IF s = "" THEN Null ELSE s
OrEmpty(s) == IF s = Null THEN "" ELSE s

----------------------------------------------------------------------------
(* Selection lists (the auxiliary fetches of a page) *)

\* tables a page loads for its <Select> inputs besides its own table
AuxTables(p) ==
    CASE p = "purchases"      -> {"vendors"}
      [] p = "ledger"         -> {"customers", "vendors"}
      [] p = "sale_items"     -> {"sales", "products"}
      [] p = "purchase_items" -> {"purchases", "products"}
      [] OTHER                -> {}

\* what the service holds in those tables (not written by the modelled page)
Catalogue(t) ==
    CASE t = "products"  -> {[id |-> "p1", name |-> "Widget", price |-> 2]}
      [] t = "vendors"   -> {[id |-> "v1", name |-> "Acme", price |-> 0]}
      [] t = "customers" -> {[id |-> "c1", name |-> "Bob", price |-> 0]}
      [] OTHER           -> {[id |-> "s1", name |-> "", price |-> 0]}

\* the table the item page's invoice select lists: the parent of its rows
ParentTable(p) == IF p = "sale_items" THEN "sales" ELSE "purchases"

\* the sale / purchase the stored items belong to, with the amounts the
\* service holds for it
ParentRows(p) ==
    IF p \in ItemPages
    THEN {[id |-> 1, owner |-> CurrentUser,
           data |-> [subtotal |-> 6, tax |-> 0, total |-> 6]]}
    ELSE {}

\* variant: the item pages write to the parent table
from_Parent(p) == IF p \in ItemPages THEN ParentTable(p) ELSE p

\* supabase.from('<table>') of handleSubmit and handleDelete: the page's
\* own table
from(p) == p

\* products.find(p => p.id === id) and the like, over the loaded lists
Find(lists, tables, id) ==
    {x \in UNION {Catalogue(t) : t \in (tables \cap lists)} : x.id = id}

----------------------------------------------------------------------------
(* The total effects: useEffect(..., [formData.quantity, formData.price])  *)
(* and useEffect(..., [formData.subtotal, formData.tax])                   *)

computeLineTotal(f) == OrElse(f.quantity, 0) * OrElse(f.price, 0)

\* variant: the tax is left out of the sum
computeInvoiceTotal_NoTax(f) == OrElse(f.subtotal, 0)

computeInvoiceTotal(f) == OrElse(f.subtotal, 0) + OrElse(f.tax, 0)

\* variant: the line-total effect depends on [formData.quantity] only
TotalEffect_QuantityOnly(p, prev, f) ==
    CASE p \in ItemPages ->
           IF f.quantity # prev.quantity /\ f.total # computeLineTotal(f)
           THEN [f EXCEPT !.total = computeLineTotal(f)]
           ELSE f
      [] p = "purchases" ->
           IF (f.subtotal # prev.subtotal \/ f.tax # prev.tax)
              /\ f.total # computeInvoiceTotal(f)
           THEN [f EXCEPT !.total = computeInvoiceTotal(f)]
           ELSE f
      [] OTHER -> f

\* the form after the effects of one render have run; prev is the form of
\* the previous render (an effect runs only when a dependency changed)
TotalEffect(p, prev, f) ==
    CASE p \in ItemPages ->
           IF (f.quantity # prev.quantity \/ f.price # prev.price)
              /\ f.total # computeLineTotal(f)
           THEN [f EXCEPT !.total = computeLineTotal(f)]
           ELSE f
      [] p = "purchases" ->
           IF (f.subtotal # prev.subtotal \/ f.tax # prev.tax)
              /\ f.total # computeInvoiceTotal(f)
           THEN [f EXCEPT !.total = computeInvoiceTotal(f)]
           ELSE f
      [] OTHER -> f

----------------------------------------------------------------------------
(* Form handlers *)

resetForm(p) == DefaultForm(p)

\* handleEdit(row): the form loaded from a displayed record
handleEdit(p, row) ==
    LET d == row.data IN
    CASE p = "customers" ->
           [name |-> d.name, email |-> OrEmpty(d.email),
            phone |-> OrEmpty(d.phone), address |-> OrEmpty(d.address),
            balance |-> Undefined]
      [] p = "vendors" ->
           [name |-> d.name, email |-> OrEmpty(d.email),
            phone |-> OrEmpty(d.phone), address |-> OrEmpty(d.address),
            balance |-> OrElse(d.balance, 0)]
      [] p = "products" ->
           [name |-> d.name, category |-> d.category, quantity |-> d.quantity,
            price |-> d.price, min_stock |-> d.min_stock]
      [] p = "purchases" ->
           [vendor_id |-> OrEmpty(d.vendor_id), vendor_name |-> d.vendor_name,
            purchase_date |-> d.purchase_date, subtotal |-> d.subtotal, tax |-> d.tax, total |-> d.total,
            status |-> d.status]
      [] p = "ledger" ->
           [entity_type |-> d.entity_type, entity_id |-> OrEmpty(d.entity_id),
            entity_name |-> d.entity_name,
            transaction_type |-> d.transaction_type, amount |-> d.amount]
      [] OTHER ->
           [invoice_id |-> d.invoice_id, product_id |-> OrEmpty(d.product_id),
            product_name |-> d.product_name, quantity |-> d.quantity,
            price |-> d.price, total |-> d.total]

\* handleProductSelect / handleVendorSelect / handleEntitySelect
handleSelect(p, f, lists, id) ==
    LET hit == Find(lists, AuxTables(p) \ {"sales", "purchases"}, id) IN
    CASE p \in ItemPages ->
           IF hit # {}
           THEN LET x == CHOOSE x \in hit : TRUE IN
                [f EXCEPT !.product_id = id, !.product_name = x.name,
                          !.price = OrElse(x.price, 0)]
           ELSE [f EXCEPT !.product_id = "", !.product_name = "", !.price = 0]
      [] p = "purchases" ->
           IF hit # {}
           THEN LET x == CHOOSE x \in hit : TRUE IN
                [f EXCEPT !.vendor_id = id, !.vendor_name = x.name]
           ELSE [f EXCEPT !.vendor_id = "", !.vendor_name = ""]
      [] p = "ledger" ->
           IF hit # {}
           THEN LET x == CHOOSE x \in hit : TRUE IN
                [f EXCEPT !.entity_id = id, !.entity_name = x.name]
           ELSE [f EXCEPT !.entity_id = "", !.entity_name = ""]
      [] OTHER -> f

\* fields whose onChange is setFormData({...formData, f: Number(value) || d})
NumericFields(p) ==
    CASE p \in PartyPages -> {"balance"}
      [] p = "products"   -> {"price", "quantity", "min_stock"}
      [] p = "purchases"  -> {"subtotal", "tax"}
      [] p = "ledger"     -> {"amount"}
      [] OTHER            -> {"quantity", "price"}

\* the d of Number(value) || d
NumericDefault(p, field) ==
    IF p \in ItemPages /\ field = "quantity" THEN 1 ELSE 0

\* one onChange / onValueChange event e = [field, value] applied to the form
onChange(p, f, lists, e) ==
    CASE e.field = "select" -> handleSelect(p, f, lists, e.value)
      [] e.field = "entity_type" ->
           [f EXCEPT !.entity_type = e.value, !.entity_id = "",
                     !.entity_name = ""]
      [] e.field \in NumericFields(p) ->
           [f EXCEPT ![e.field] =
                OrElse(Number(e.value), NumericDefault(p, e.field))]
      [] OTHER -> [f EXCEPT ![e.field] = e.value]


----------------------------------------------------------------------------
(* Validation rules, one by one, in the order validateForm declares them *)

RuleOrder(p) ==
    CASE p \in PartyPages  -> <<"name", "email", "balance">>
      [] p = "products"    -> <<"name", "category", "price", "quantity",
                                "min_stock">>
      [] p = "purchases"   -> <<"vendor_name", "subtotal", "tax">>
      [] p = "ledger"      -> <<"entity_type", "entity", "transaction_type",
                                "amount">>
      [] OTHER             -> <<"invoice_id", "product_name", "quantity",
                                "price">>

\* fields that must be greater than zero, and fields that must not be negative
MustBePositive(p) ==
    CASE p = "products"  -> {"price"}
      [] p = "purchases" -> {"subtotal"}
      [] p = "ledger"    -> {"amount"}
      [] p \in ItemPages -> {"quantity", "price"}
      [] OTHER           -> {}

MustNotBeNegative(p) ==
    CASE p \in PartyPages -> {"balance"}
      [] p = "products"   -> {"quantity", "min_stock"}
      [] p = "purchases"  -> {"tax"}
      [] OTHER            -> {}

\* whether form f violates the rule named r
Broken(p, f, r) ==
    CASE r = "email"  -> f.email # "" /\ ~EmailOk(f.email)
      [] r = "entity" -> f.entity_id = "" /\ Trim(f.entity_name) = ""
      [] r \in MustBePositive(p) ->
           f[r] \in {NaN, Undefined} \/ ~(f[r] > 0)
      [] r \in MustNotBeNegative(p) ->
           f[r] \notin {NaN, Undefined} /\ f[r] < 0
      [] r \in {"entity_type", "transaction_type", "invoice_id"} -> f[r] = ""
      [] OTHER -> Trim(f[r]) = ""

\* the description of the toast that reports rule r
RuleMessage(p, r) ==
    CASE r = "name" ->
           CASE p = "customers" -> "Customer name is required."
             [] p = "vendors"   -> "Vendor name is required."
             [] OTHER           -> "Product name is required."
      [] r = "email"       -> "Please enter a valid email address."
      [] r = "balance"     -> "Balance cannot be negative."
      [] r = "category"    -> "Category is required."
      [] r = "price"       -> "Price must be greater than zero."
      [] r = "quantity" ->
           IF p = "products" THEN "Quantity cannot be negative."
           ELSE "Quantity must be greater than zero."
      [] r = "min_stock"   -> "Minimum stock cannot be negative."
      [] r = "vendor_name" -> "Vendor name is required."
      [] r = "subtotal"    -> "Subtotal must be greater than zero."
      [] r = "tax"         -> "Tax cannot be negative."
      [] r = "entity_type" -> "Entity type is required."
      [] r = "entity"      -> "Entity selection or name is required."
      [] r = "transaction_type" -> "Transaction type is required."
      [] r = "amount"      -> "Amount must be greater than zero."
      [] r = "invoice_id" ->
           IF p = "sale_items" THEN "Sale selection is required."
           ELSE "Purchase selection is required."
      [] OTHER             -> "Product name is required."

\* positions in RuleOrder(p) of the rules form f violates
BrokenRules(p, f) ==
    {i \in 1..Len(RuleOrder(p)) : Broken(p, f, RuleOrder(p)[i])}

----------------------------------------------------------------------------
(* Validation: the toasts validateForm emits; it returns true iff none *)

\* variant: every violated rule is reported, none ends the validation
validateForm_ReportAll(p, f) ==
    LET Hit(r) == Broken(p, f, r)
        hits == SelectSeq(RuleOrder(p), Hit)
    IN [i \in 1..Len(hits) |-> RuleMessage(p, hits[i])]

validateForm(p, f) ==
    CASE p \in PartyPages ->
           IF Trim(f.name) = ""
           THEN <<IF p = "customers" THEN "Customer name is required."
                                      ELSE "Vendor name is required.">>
           ELSE IF f.email # "" /\ ~EmailOk(f.email)
           THEN <<"Please enter a valid email address.">>
           ELSE IF OrElse(f.balance, 0) # 0 /\ Less(f.balance, 0)
           THEN <<"Balance cannot be negative.">>
           ELSE <<>>
      [] p = "products" ->
           IF Trim(f.name) = "" THEN <<"Product name is required.">>
           ELSE IF Trim(f.category) = "" THEN <<"Category is required.">>
           ELSE IF OrElse(f.price, 0) = 0 \/ f.price <= 0
           THEN <<"Price must be greater than zero.">>
           ELSE IF f.quantity # Undefined /\ Less(f.quantity, 0)
           THEN <<"Quantity cannot be negative.">>
           ELSE IF f.min_stock # Undefined /\ Less(f.min_stock, 0)
           THEN <<"Minimum stock cannot be negative.">>
           ELSE <<>>
      [] p = "purchases" ->
           IF Trim(f.vendor_name) = "" THEN <<"Vendor name is required.">>
           ELSE IF OrElse(f.subtotal, 0) = 0 \/ f.subtotal <= 0
           THEN <<"Subtotal must be greater than zero.">>
           ELSE IF f.tax # Undefined /\ Less(f.tax, 0)
           THEN <<"Tax cannot be negative.">>
           ELSE <<>>
      [] p = "ledger" ->
           IF f.entity_type = "" THEN <<"Entity type is required.">>
           ELSE IF f.entity_id = "" /\ Trim(f.entity_name) = ""
           THEN <<"Entity selection or name is required.">>
           ELSE IF f.transaction_type = ""
           THEN <<"Transaction type is required.">>
           ELSE IF OrElse(f.amount, 0) = 0 \/ f.amount <= 0
           THEN <<"Amount must be greater than zero.">>
           ELSE <<>>
      [] OTHER ->
           IF f.invoice_id = ""
           THEN <<IF p = "sale_items" THEN "Sale selection is required."
                                       ELSE "Purchase selection is required.">>
           ELSE IF Trim(f.product_name) = ""
           THEN <<"Product name is required.">>
           ELSE IF OrElse(f.quantity, 0) = 0 \/ f.quantity <= 0
           THEN <<"Quantity must be greater than zero.">>
           ELSE IF OrElse(f.price, 0) = 0 \/ f.price <= 0
           THEN <<"Price must be greater than zero.">>
           ELSE <<>>

----------------------------------------------------------------------------
(* The record handleSubmit builds: customerData, productData, itemData ... *)

BuildData(p, f, user) ==
    CASE p = "customers" ->
           [user_id |-> user, name |-> Trim(f.name),
            email |-> OrNull(Trim(f.email)), phone |-> OrNull(Trim(f.phone)),
            address |-> OrNull(Trim(f.address)), balance |-> f.balance]
      [] p = "vendors" ->
           [user_id |-> user, name |-> Trim(f.name),
            email |-> OrNull(Trim(f.email)), phone |-> OrNull(Trim(f.phone)),
            address |-> OrNull(Trim(f.address)),
            balance |-> OrElse(f.balance, 0)]
      [] p = "products" ->
           [user_id |-> user, name |-> Trim(f.name),
            category |-> Trim(f.category),
            quantity |-> OrElse(f.quantity, 0), price |-> OrElse(f.price, 0),
            min_stock |-> OrElse(f.min_stock, 0)]
      [] p = "purchases" ->
           [user_id |-> user, vendor_id |-> OrNull(f.vendor_id),
            vendor_name |-> Trim(f.vendor_name),
            purchase_date |-> f.purchase_date,
            subtotal |-> OrElse(f.subtotal, 0), tax |-> OrElse(f.tax, 0),
            total |-> OrElse(f.total, 0),
            status |-> IF f.status = "" THEN "pending" ELSE f.status]
      [] p = "ledger" ->
           [user_id |-> user,
            entity_type |-> IF f.entity_type = "" THEN "customer"
                                                  ELSE f.entity_type,
            entity_id |-> OrNull(f.entity_id),
            entity_name |-> Trim(f.entity_name),
            transaction_type |-> IF f.transaction_type = "" THEN "debit"
                                 ELSE f.transaction_type,
            amount |-> OrElse(f.amount, 0)]
      [] OTHER ->
           [invoice_id |-> f.invoice_id, product_id |-> OrNull(f.product_id),
            product_name |-> Trim(f.product_name),
            quantity |-> OrElse(f.quantity, 1), price |-> OrElse(f.price, 0),
            total |-> OrElse(f.total, 0)]

\* .eq('user_id', user.id) on update and delete: the owner filter, or the
\* empty set where the page sends none
OwnerFilter(p, user) == IF p \in ItemPages THEN {} ELSE {user}


----------------------------------------------------------------------------
(* The persistence service *)

\* a valid row of the page's table, as an earlier session stored it
SeedData(p) ==
    CASE p \in PartyPages ->
           [user_id |-> CurrentUser, name |-> "Acme", email |-> Null,
            phone |-> Null, address |-> Null, balance |-> 0]
      [] p = "products" ->
           [user_id |-> CurrentUser, name |-> "Widget", category |-> "Tools",
            quantity |-> 3, price |-> 2, min_stock |-> 1]
      [] p = "purchases" ->
           [user_id |-> CurrentUser, vendor_id |-> Null,
            vendor_name |-> "Acme", purchase_date |-> Today,
            subtotal |-> 3, tax |-> 1, total |-> 4,
            status |-> "pending"]
      [] p = "ledger" ->
           [user_id |-> CurrentUser, entity_type |-> "customer",
            entity_id |-> Null, entity_name |-> "Bob",
            transaction_type |-> "debit", amount |-> 3]
      [] OTHER ->
           [invoice_id |-> "s1", product_id |-> Null,
            product_name |-> "Widget", quantity |-> 3, price |-> 2,
            total |-> 6]

SeedIds == {1}

\* SetToSeq of row ids, newest first: .order('created_at', {ascending: false})
RECURSIVE NewestFirst(_)
NewestFirst(rows) ==
    IF rows = {} THEN <<>>
    ELSE LET top == CHOOSE r \in rows : \A q \in rows : q.id <= r.id
         IN <<top>> \o NewestFirst(rows \ {top})

\* select('*'): row-level security shows the session user's rows
ListRows(rows, user) == NewestFirst({r \in rows : r.owner = user})

\* the rows an update or delete with .eq('id', id)[.eq('user_id', u)] touches
Matches(rows, user, id, owners) ==
    {r \in rows : r.id = id /\ r.owner = user /\ (owners = {} \/ r.owner \in owners)}

\* whether the request carries column k (customerData has no balance key
\* unless the balance input was used)
Carries(new, k) == ~(k = "balance" /\ new[k] = Undefined)

\* columns an update leaves alone: those the request does not carry
Patch(old, new) ==
    [k \in DOMAIN new |-> IF Carries(new, k) THEN new[k] ELSE old[k]]

\* a new row: columns the request does not carry take the column default
Fresh(new) ==
    [k \in DOMAIN new |-> IF Carries(new, k) THEN new[k] ELSE 0]

\* the table after the service has carried out request h
Apply(rows, id, user, h) ==
    CASE h.call = "insert" ->
           rows \cup {[id |-> id, owner |-> user, data |-> Fresh(h.row[1])]}
      [] h.call = "update" ->
           {IF r \in Matches(rows, user, h.eqId, h.eqUser)
            THEN [r EXCEPT !.data = Patch(r.data, h.row[1])] ELSE r : r \in rows}
      [] h.call = "delete" ->
           rows \ Matches(rows, user, h.eqId, h.eqUser)
      [] OTHER -> rows

----------------------------------------------------------------------------
(* Strings as the search filter sees them *)

\* the characters of the names, ids and search terms of the model
Text(s) ==
    CASE s = "Acme"   -> <<"A", "c", "m", "e">>
      [] s = "Bob"    -> <<"B", "o", "b">>
      [] s = "Widget" -> <<"W", "i", "d", "g", "e", "t">>
      [] s = "Tools"  -> <<"T", "o", "o", "l", "s">>
      [] s = "ac"     -> <<"a", "c">>
      [] s = "AC"     -> <<"A", "C">>
      [] s = "5AC"    -> <<"5", "A", "C">>
      [] s = "i1"     -> <<"i", "1">>
      [] s = " "      -> <<" ">>
      [] s = ""       -> <<>>
      [] s = "s1"     -> <<"s", "1">>
      [] s = "s2"     -> <<"s", "2">>
      [] OTHER        -> Chars(s)

\* a row id as text (ids are lower-case in the service)
IdText(id) == <<"i", ToString(id)>>

\* s.toLowerCase()
toLowerCase(cs) ==
    [i \in 1..Len(cs) |->
       CASE cs[i] = "A" -> "a"
         [] cs[i] = "B" -> "b"
         [] cs[i] = "C" -> "c"
         [] cs[i] = "T" -> "t"
         [] cs[i] = "W" -> "w"
         [] OTHER       -> cs[i]]

\* s.includes(t)
includes(cs, t) ==
    \E i \in 1..(Len(cs) - Len(t) + 1) :
      \A k \in 1..Len(t) : cs[i + k - 1] = t[k]

----------------------------------------------------------------------------
(* Dates as the purchases page sees them *)

\* new Date('YYYY-MM-DD'): a date-only string is 00:00 UTC of that day
ParseDate(d) == d * DayHours

\* the calendar day toDateString() prints: the day of instant t in the
\* browser's time zone
toDateString(t, c) == (t + c.tz) \div DayHours

\* the purchases dateFilter keeps for 'today', 'week' and 'month'
DateKeeps(kind, d, c) ==
    CASE kind = "today" ->
           toDateString(ParseDate(d), c) = toDateString(c.now, c)
      [] kind = "week" ->
           \* filterDate.setDate(today.getDate() - 7)
           ParseDate(d) >= c.now - 7 * DayHours
      [] kind = "month" ->
           \* filterDate.setMonth(today.getMonth() - 1)
           ParseDate(d) >= c.now - c.monthDays * DayHours
      [] OTHER -> TRUE

----------------------------------------------------------------------------
(* The filter effects *)

\* the useState initial values of searchTerm and the <Select> filters
DefaultFilters(p) ==
    CASE p \in PartyPages ->
           [searchTerm |-> ""]
      [] p = "products" ->
           [searchTerm |-> "", categoryFilter |-> "all", stockFilter |-> "all"]
      [] p = "purchases" ->
           [searchTerm |-> "", statusFilter |-> "all", dateFilter |-> "all"]
      [] p = "ledger" ->
           [searchTerm |-> "", entityTypeFilter |-> "all",
            transactionTypeFilter |-> "all"]
      [] OTHER ->
           [searchTerm |-> "", invoiceFilter |-> "all"]

\* the texts of row r the lower-cased search term is looked up in, lower-
\* cased; a null email or address is skipped by "?."
SearchFields(p, r) ==
    CASE p \in PartyPages ->
           {toLowerCase(Text(r.data[k])) :
              k \in {c \in {"name", "email", "address"} : r.data[c] # Null}}
      [] p = "products" ->
           {toLowerCase(Text(r.data.name)), toLowerCase(Text(r.data.category))}
      [] p = "purchases" ->
           {toLowerCase(Text(r.data.vendor_name)), toLowerCase(IdText(r.id))}
      [] p = "ledger" ->
           {toLowerCase(Text(r.data.entity_name)), toLowerCase(IdText(r.id))}
      [] OTHER ->
           {toLowerCase(Text(r.data.product_name)), toLowerCase(IdText(r.id))}

\* variant: a term of blanks only counts as a search
SearchActive_Raw(term) == term # ""

\* "if (searchTerm.trim())"
SearchActive(term) == Trim(term) # ""

\* the texts of row r the search term is looked up in as they are:
\* "customer.phone?.includes(searchTerm)"
RawSearchFields(p, r) ==
    IF p \in PartyPages /\ r.data.phone # Null THEN {Text(r.data.phone)}
    ELSE {}

\* the predicate of the search filter: the term itself, not trimmed
SearchHit(p, r, term) ==
    \/ \E cs \in SearchFields(p, r) : includes(cs, toLowerCase(Text(term)))
    \/ \E cs \in RawSearchFields(p, r) : includes(cs, Text(term))

\* the predicate of the products stockFilter
StockKeeps(kind, d) ==
    CASE kind = "low"     -> d.quantity <= d.min_stock
      [] kind = "out"     -> d.quantity = 0
      [] kind = "instock" -> d.quantity > d.min_stock
      [] OTHER            -> TRUE

\* the body of a page's filter effect: the record set narrowed filter by
\* filter, in the order of the source
FilterEffect(p, recs, flt, c) ==
    LET Hit(r) == SearchHit(p, r, flt.searchTerm)
        found  == IF SearchActive(flt.searchTerm) THEN SelectSeq(recs, Hit)
                  ELSE recs
    IN CASE p \in PartyPages -> found
         [] p = "products" ->
              LET InCat(r) == r.data.category = flt.categoryFilter
                  Stock(r) == StockKeeps(flt.stockFilter, r.data)
                  byCat == IF flt.categoryFilter # "all"
                           THEN SelectSeq(found, InCat) ELSE found
              IN SelectSeq(byCat, Stock)
         [] p = "purchases" ->
              LET Status(r) == r.data.status = flt.statusFilter
                  Date(r) == DateKeeps(flt.dateFilter, r.data.purchase_date, c)
                  byStatus == IF flt.statusFilter # "all"
                              THEN SelectSeq(found, Status) ELSE found
              IN IF flt.dateFilter # "all" THEN SelectSeq(byStatus, Date)
                 ELSE byStatus
         [] p = "ledger" ->
              LET Entity(r) == r.data.entity_type = flt.entityTypeFilter
                  Kind(r) == r.data.transaction_type = flt.transactionTypeFilter
                  byEntity == IF flt.entityTypeFilter # "all"
                              THEN SelectSeq(found, Entity) ELSE found
              IN IF flt.transactionTypeFilter # "all"
                 THEN SelectSeq(byEntity, Kind) ELSE byEntity
         [] OTHER ->
              LET Invoice(r) == r.data.invoice_id = flt.invoiceFilter
              IN IF flt.invoiceFilter # "all" THEN SelectSeq(found, Invoice)
                 ELSE found

----------------------------------------------------------------------------
(* Stock status and statistics *)

\* variant: the low-stock test comes first
getStockBadge_LowFirst(quantity, minStock) ==
    IF quantity <= minStock THEN "Low Stock"
    ELSE IF quantity = 0 THEN "Out of Stock"
    ELSE "In Stock"

\* getStockBadge(quantity, minStock): the label of the badge
getStockBadge(quantity, minStock) ==
    IF quantity = 0 THEN "Out of Stock"
    ELSE IF quantity <= minStock THEN "Low Stock"
    ELSE "In Stock"

\* rows.reduce((sum, r) => sum + r[field], 0)
RECURSIVE reduce(_, _)
reduce(rows, field) ==
    IF rows = <<>> THEN 0
    ELSE reduce(SubSeq(rows, 1, Len(rows) - 1), field)
         + rows[Len(rows)].data[field]

\* a / b, kept as a fraction
Ratio(a, b) == [num |-> a, den |-> b]

\* variant: debits less credits
netBalance_Swapped(totalCredits, totalDebits) == totalDebits - totalCredits

\* const netBalance = totalCredits - totalDebits
netBalance(totalCredits, totalDebits) == totalCredits - totalDebits

\* calculateStats(): the value the stats effect sets
calculateStats(p, recs, c) ==
    CASE p = "ledger" ->
           LET Debit(r) == r.data.transaction_type = "debit"
               Credit(r) == r.data.transaction_type = "credit"
               totalDebits == reduce(SelectSeq(recs, Debit), "amount")
               totalCredits == reduce(SelectSeq(recs, Credit), "amount")
           IN [totalDebits |-> totalDebits, totalCredits |-> totalCredits,
               netBalance |-> netBalance(totalCredits, totalDebits)]
      [] p = "purchases" ->
           LET IsToday(r) == toDateString(ParseDate(r.data.purchase_date), c)
                               = toDateString(c.now, c)
               Pending(r) == r.data.status = "pending"
           IN [totalPurchases |-> reduce(recs, "total"),
               todayPurchases |-> reduce(SelectSeq(recs, IsToday), "total"),
               pendingAmount |-> reduce(SelectSeq(recs, Pending), "total")]
      [] p \in ItemPages ->
           [totalItems |-> Len(recs), totalValue |-> reduce(recs, "total"),
            avgPrice |-> IF Len(recs) > 0
                         THEN Ratio(reduce(recs, "total"), Len(recs))
                         ELSE Ratio(0, 1)]
      [] OTHER -> [none |-> TRUE]

----------------------------------------------------------------------------
(* Suspended handlers *)

\* a handler suspended at "await supabase.auth.getUser()"
AwaitUser(op, fn, table, form, editing, target, no) ==
    [op |-> op, fn |-> fn, call |-> "getUser", table |-> table, no |-> no,
     form |-> form, editing |-> editing, target |-> target,
     eqId |-> NullId, eqUser |-> {}, row |-> <<>>,
     served |-> FALSE, error |-> FALSE, data |-> <<>>]

\* the same handler suspended at its next request
AwaitCall(h, call, eqId, eqUser, row) ==
    [h EXCEPT !.call = call, !.eqId = eqId, !.eqUser = eqUser, !.row = row,
              !.served = FALSE, !.error = FALSE, !.data = <<>>]

Writes == {"insert", "update", "delete"}

\* toast.error(title, {description}) / toast.success(title, {description});
\* the description is kept where it tells two toasts apart
Toast(level, title) == [level |-> level, title |-> title, description |-> ""]

\* toast.error('Validation Error', {description: msg})
ValidationToast(msg) ==
    [level |-> "error", title |-> "Validation Error", description |-> msg]

\* the record displayed for id: records.find(r => r.id === id)
Displayed(id) == {records[i] : i \in {k \in 1..Len(records) : records[k].id = id}}

\* a session at 12:00 UTC of Today in a browser on UTC, after a 30-day month
Noon == [now |-> Today * DayHours + 12, tz |-> 0, monthDays |-> 30]

TypeOK ==
    /\ page \in Pages
    /\ loading \in BOOLEAN
    /\ editingId \in Nat
    /\ nextOp \in 0..MaxOps
    /\ loaded \subseteq AuxTables(page)
    /\ \A h \in inflight : h.call \in {"getUser", "list"} \cup Writes

Init ==
    /\ clock = Noon
    /\ page \in Pages
    /\ store = {[id |-> i, owner |-> CurrentUser, data |-> SeedData(page)] :
                   i \in SeedIds}
    /\ nextId = Cardinality(SeedIds) + 1
    /\ records = <<>>
    /\ formData = DefaultForm(page)
    /\ editingId = NullId
    /\ loading = TRUE
    /\ inflight =
         {AwaitUser(0, "fetch", page, DefaultForm(page), NullId, NullId, 1)}
         \cup {AwaitUser(0, "fetchAux", t, DefaultForm(page), NullId, NullId, 0) :
                 t \in AuxTables(page)}
    /\ nextOp = 0
    /\ confirmed = ""
    /\ toasts = <<>>
    /\ pushed = <<>>
    /\ loaded = {}
    /\ fetches = 1
    /\ lastApplied = 0
    /\ newestApplied = 0
    /\ parents = ParentRows(page)
    /\ faulted = FALSE
    /\ filters = DefaultFilters(page)
    /\ filtered = <<>>
    /\ stats = calculateStats(page, <<>>, clock)


----------------------------------------------------------------------------
(* What a user can enter *)

\* the options a <Select> offers: "manual" and the ids of the loaded rows
SelectOptions(lists, tables) ==
    {x.id : x \in UNION {Catalogue(t) : t \in (tables \cap lists)}}

\* every onChange / onValueChange event of the page's form
FormInputs(p, lists) ==
    LET text(fs, vs) == {[field |-> f, value |-> v] : f \in fs, v \in vs}
        nums == {"", "abc", "-1", "0", "2", "3"}
        sel  == text({"select"}, {"manual"} \cup SelectOptions(lists,
                       AuxTables(p) \ {"sales", "purchases"}))
    IN CASE p \in PartyPages ->
              text({"name"}, {"", " ", "Acme"})
              \cup text({"email"}, {"", "a@b.c", "a@b", "a @b.c"})
              \cup text({"phone"}, {"", "5AC"})
              \cup text({"address"}, {"", "Tools"})
              \cup text({"balance"}, nums)
         [] p = "products" ->
              text({"name"}, {"", " ", "Widget"})
              \cup text({"category"}, {"", "Tools"})
              \cup text({"price", "quantity", "min_stock"}, nums)
         [] p = "purchases" ->
              sel \cup text({"vendor_name"}, {"", " ", "Acme"})
              \cup text({"subtotal", "tax"}, nums)
              \cup text({"status"}, {"paid", "pending"})
         [] p = "ledger" ->
              sel \cup text({"entity_type"}, {"customer", "vendor"})
              \cup text({"entity_name"}, {"", " ", "Bob"})
              \cup text({"transaction_type"}, {"debit", "credit"})
              \cup text({"amount"}, nums)
         [] OTHER ->
              sel \cup text({"invoice_id"},
                            SelectOptions(lists, {"sales", "purchases"}))
              \cup text({"product_name"}, {"", " ", "Widget"})
              \cup text({"quantity", "price"}, nums)

\* the few of them the asynchronous model types: enough to fill a valid form
QuickInputs(p, lists) ==
    {e \in FormInputs(p, lists) :
        /\ e.field \in {"name", "category", "price", "vendor_name", "subtotal",
                        "entity_name", "amount", "invoice_id", "product_name"}
        /\ e.value \in {"Acme", "Widget", "Tools", "Bob", "2", "s1"}}

----------------------------------------------------------------------------
(* User events.  Inputs and buttons are disabled while loading. *)

Quiet == /\ toasts' = <<>>
         /\ pushed' = <<>>
         /\ confirmed' = ""

History == <<fetches, lastApplied, newestApplied, faulted>>

View == <<filters, filtered, stats, clock>>

\* variant: the statistics are taken over the filtered list
ViewEffects_StatsOfFiltered(flt) ==
    /\ filters' = flt
    /\ filtered' = FilterEffect(page, records', flt, clock)
    /\ stats' = calculateStats(page, filtered', clock)

\* the filters become flt; then the filter effect and the stats effect run,
\* as after every render that changed the record set or a filter
ViewEffects(flt) ==
    /\ filters' = flt
    /\ filtered' = FilterEffect(page, records', flt, clock)
    /\ stats' = IF records' # records
                THEN calculateStats(page, records', clock) ELSE stats

\* onChange of a form input, followed by the total effect
ChangeField(inputs) ==
    /\ ~loading
    /\ \E e \in inputs :
         formData' = TotalEffect(page, formData,
                                 onChange(page, formData, loaded, e))
    /\ Quiet
    /\ UNCHANGED <<View, page, parents, store, nextId, records, editingId, loading, inflight,
                   nextOp, loaded, History>>

\* the Cancel button: onClick={resetForm}, rendered while editing
Cancel ==
    /\ ~loading
    /\ editingId # NullId
    /\ formData' = TotalEffect(page, formData, resetForm(page))
    /\ editingId' = NullId
    /\ Quiet
    /\ UNCHANGED <<View, page, parents, store, nextId, records, loading, inflight, nextOp,
                   loaded, History>>

\* the Edit button of a displayed row: onClick={() => handleEdit(row)}
Edit ==
    /\ ~loading
    /\ \E i \in 1..Len(records) :
         /\ formData' = TotalEffect(page, formData, handleEdit(page, records[i]))
         /\ editingId' = records[i].id
    /\ Quiet
    /\ UNCHANGED <<View, page, parents, store, nextId, records, loading, inflight, nextOp,
                   loaded, History>>

\* variant: handleSubmit goes on whatever validateForm returned
Blocked_Never(errors) == FALSE

\* "if (!validateForm()) return;"
Blocked(errors) == errors # <<>>

\* handleSubmit up to its first await
Submit(limit) ==
    /\ ~loading
    /\ LET errors == validateForm(page, formData) IN
       IF Blocked(errors)
       THEN /\ toasts' = [i \in 1..Len(errors) |-> ValidationToast(errors[i])]
            /\ UNCHANGED <<loading, inflight, nextOp>>
       ELSE /\ nextOp < limit
            /\ nextOp' = nextOp + 1
            /\ loading' = TRUE
            /\ inflight' = inflight \cup
                 {AwaitUser(nextOp + 1, "submit", from(page), formData, editingId,
                            NullId, 0)}
            /\ toasts' = <<>>
    /\ pushed' = <<>>
    /\ confirmed' = ""
    /\ UNCHANGED <<View, page, parents, store, nextId, records, formData, editingId, loaded,
                   History>>

\* variant: handleDelete goes on whatever confirm() answered
Declined_Never(yes) == FALSE

\* "if (!confirm(...)) return;"
Declined(yes) == ~yes

\* handleDelete up to its first await; confirm() answers yes or no
Delete(limit) ==
    /\ ~loading
    /\ \E i \in 1..Len(records), yes \in BOOLEAN :
         /\ confirmed' = IF yes THEN "yes" ELSE "no"
         /\ IF Declined(yes)
            THEN UNCHANGED <<loading, inflight, nextOp>>
            ELSE /\ nextOp < limit
                 /\ nextOp' = nextOp + 1
                 /\ loading' = TRUE
                 /\ inflight' = inflight \cup
                      {AwaitUser(nextOp + 1, "delete", from(page),
                                 DefaultForm(page), NullId, records[i].id,
                                 0)}
    /\ toasts' = <<>>
    /\ pushed' = <<>>
    /\ UNCHANGED <<View, page, parents, store, nextId, records, formData, editingId, loaded,
                   History>>


----------------------------------------------------------------------------
(* Continuations: what a handler does when the request it awaits resolves *)

\* variant: handleSubmit and handleDelete start the refetch together with
\* the write instead of after it
NextRequest_Eager(h) ==
    CASE h.fn \in {"fetch", "fetchAux"} ->
           {AwaitCall(h, "list", NullId, {}, <<>>)}
      [] h.fn = "submit" ->
           {AwaitCall(h, IF h.editing # NullId THEN "update" ELSE "insert",
                      h.editing, OwnerFilter(page, CurrentUser),
                      <<BuildData(page, h.form, CurrentUser)>>),
            AwaitUser(h.op, "fetch", page, DefaultForm(page), NullId, NullId,
                      fetches + 1)}
      [] OTHER ->
           {AwaitCall(h, "delete", h.target, OwnerFilter(page, CurrentUser),
                      <<>>),
            AwaitUser(h.op, "fetch", page, DefaultForm(page), NullId, NullId,
                      fetches + 1)}

\* variant: handleSubmit inserts whether or not a record is being edited
NextRequest_InsertAlways(h) ==
    CASE h.fn \in {"fetch", "fetchAux"} ->
           {AwaitCall(h, "list", NullId, {}, <<>>)}
      [] h.fn = "submit" ->
           {AwaitCall(h, "insert", NullId, {},
                      <<BuildData(page, h.form, CurrentUser)>>)}
      [] OTHER ->
           {AwaitCall(h, "delete", h.target, OwnerFilter(page, CurrentUser),
                      <<>>)}

\* the request a handler sends once getUser has returned a user
NextRequest(h) ==
    CASE h.fn \in {"fetch", "fetchAux"} ->
           {AwaitCall(h, "list", NullId, {}, <<>>)}
      [] h.fn = "submit" /\ h.editing # NullId ->
           {AwaitCall(h, "update", h.editing, OwnerFilter(page, CurrentUser),
                      <<BuildData(page, h.form, CurrentUser)>>)}
      [] h.fn = "submit" /\ h.editing = NullId ->
           {AwaitCall(h, "insert", NullId, {},
                      <<BuildData(page, h.form, CurrentUser)>>)}
      [] OTHER ->
           {AwaitCall(h, "delete", h.target, OwnerFilter(page, CurrentUser),
                      <<>>)}

\* variant: a handler whose getUser failed sends its request all the same
AfterAuthError_GoesOn(h) == NextRequest(h)

\* the requests a handler sends from the "if (authError || !user)" branch:
\* none, it returns
AfterAuthError(h) == {}

\* variant: a handler whose request failed returns before setLoading(false)
LoadingAfter_KeepOnError(h) == h.error /\ loading

\* the loading flag a fetch, submit or delete handler leaves when it
\* returns: setLoading(false) is the last statement on every path
LoadingAfter(h) == FALSE

\* variant: a write reports success whatever it returned
Outcome_SuccessAlways(h) == <<Toast("success", "Done")>>

\* "if (error) toast.error(...) else toast.success(...)" of a write
Outcome(h) == IF h.error THEN <<Toast("error", "Failed")>>
              ELSE <<Toast("success", "Done")>>

\* router.push calls of the "if (authError || !user)" branch
AuthRedirect(h) == IF h.fn = "fetch" THEN <<"/login">> ELSE <<>>

\* "await supabase.auth.getUser()" resolves, with a user or without one
GetUserResolves ==
    \E h \in inflight, ok \in BOOLEAN :
      /\ h.call = "getUser"
      /\ confirmed' = ""
      /\ IF ~ok
         THEN \* if (authError || !user) { ...; return; }
              /\ inflight' = (inflight \ {h}) \cup AfterAuthError(h)
              /\ toasts' = IF h.fn = "fetchAux" THEN <<>>
                           ELSE <<Toast("error", "Authentication Error")>>
              /\ pushed' = AuthRedirect(h)
              /\ loading' = IF h.fn = "fetchAux" THEN loading
                            ELSE LoadingAfter(h)
         ELSE /\ inflight' = (inflight \ {h}) \cup NextRequest(h)
              /\ toasts' = <<>>
              /\ pushed' = <<>>
              /\ UNCHANGED loading
      /\ faulted' = (faulted \/ ~ok)
      /\ UNCHANGED <<View, page, parents, store, nextId, records, formData,
                     editingId, nextOp, loaded, fetches, lastApplied,
                     newestApplied>>

\* the service carries out a request, or fails it
Serve ==
    \E h \in inflight, err \in BOOLEAN :
      /\ h.call # "getUser" /\ h.fn # "fetchAux"
      /\ ~h.served
      /\ inflight' = (inflight \ {h}) \cup
           {[h EXCEPT !.served = TRUE, !.error = err,
                      !.data = IF h.call = "list" /\ ~err
                               THEN ListRows(store, CurrentUser) ELSE <<>>]}
      \* the request is carried out on the table it names
      /\ store' = IF err \/ h.table # page THEN store
                  ELSE Apply(store, nextId, CurrentUser, h)
      /\ parents' = IF err \/ h.table = page THEN parents
                    ELSE Apply(parents, nextId, CurrentUser, h)
      /\ nextId' = IF ~err /\ h.call = "insert" THEN nextId + 1 ELSE nextId
      /\ faulted' = (faulted \/ err)
      /\ Quiet
      /\ UNCHANGED <<View, page, records, formData, editingId, loading, nextOp,
                     loaded, fetches, lastApplied, newestApplied>>

\* variant: the result of a fetch started before one already applied is
\* dropped
ApplyList_DropStale(h) ==
    IF h.error \/ h.no < newestApplied THEN records ELSE h.data

\* if (error) toast.error(...) else setCustomers(data || [])
ApplyList(h) == IF h.error THEN records ELSE h.data

\* fetchCustomers / fetchProducts / ... after "await ...select('*')"
ListResolves ==
    \E h \in inflight :
      /\ h.fn = "fetch" /\ h.call = "list" /\ h.served
      /\ inflight' = inflight \ {h}
      /\ toasts' = IF h.error THEN <<Toast("error", "Failed to Fetch")>>
                   ELSE <<>>
      /\ pushed' = <<>>
      /\ confirmed' = ""
      /\ records' = ApplyList(h)
      /\ loading' = LoadingAfter(h)
      /\ lastApplied' = IF h.error THEN lastApplied ELSE h.no
      /\ newestApplied' = IF ~h.error /\ h.no > newestApplied
                          THEN h.no ELSE newestApplied
      /\ ViewEffects(filters)
      /\ UNCHANGED <<clock, page, parents, store, nextId, formData, editingId,
                     nextOp, loaded, fetches, faulted>>

\* fetchVendors / fetchProducts / fetchSales ...: the selection lists, which
\* report no error and leave loading alone
AuxListResolves ==
    \E h \in inflight, err \in BOOLEAN :
      /\ h.fn = "fetchAux" /\ h.call = "list"
      /\ inflight' = inflight \ {h}
      /\ loaded' = IF err THEN loaded ELSE loaded \cup {h.table}
      /\ faulted' = (faulted \/ err)
      /\ Quiet
      /\ UNCHANGED <<View, page, parents, store, nextId, records, formData,
                     editingId, loading, nextOp, fetches, lastApplied,
                     newestApplied>>

\* variant: resetForm() runs whether or not the write failed
FormAfter_ResetAlways(h) ==
    IF h.fn = "submit"
    THEN <<TotalEffect(page, formData, resetForm(page)), NullId>>
    ELSE <<formData, editingId>>

\* variant: resetForm() clears the form but not editingId
FormAfter_KeepsId(h) ==
    IF ~h.error /\ h.fn = "submit"
    THEN <<TotalEffect(page, formData, resetForm(page)), editingId>>
    ELSE <<formData, editingId>>

\* the form and editingId a handler leaves when its write has resolved:
\* resetForm() on a successful submit
FormAfter(h) ==
    IF ~h.error /\ h.fn = "submit"
    THEN <<TotalEffect(page, formData, resetForm(page)), NullId>>
    ELSE <<formData, editingId>>

\* the handlers a successful write starts: fetchCustomers(), not awaited
Refetch(h) ==
    IF h.error THEN {}
    ELSE {AwaitUser(h.op, "fetch", page, DefaultForm(page), NullId, NullId,
                    fetches + 1)}

\* variant: a successful delete removes the row from the record set itself
RecordsAfter_Patch(h) ==
    LET Keep(r) == r.id # h.target IN
    IF ~h.error /\ h.call = "delete" THEN SelectSeq(records, Keep) ELSE records

\* the record set a resolved write leaves: submit and delete do not touch it
RecordsAfter(h) == records

\* handleSubmit / handleDelete after "await ...insert / update / delete"
MutationResolves ==
    \E h \in inflight :
      /\ h.call \in Writes /\ h.served
      /\ pushed' = <<>>
      /\ confirmed' = ""
      /\ toasts' = Outcome(h)
      /\ formData' = FormAfter(h)[1]
      /\ editingId' = FormAfter(h)[2]
      /\ records' = RecordsAfter(h)
      /\ inflight' = (inflight \ {h}) \cup Refetch(h)
      /\ fetches' = fetches + Cardinality(Refetch(h))
      \* the handler's last statement: setLoading(false)
      /\ loading' = LoadingAfter(h)
      /\ ViewEffects(filters)
      /\ UNCHANGED <<clock, page, parents, store, nextId, nextOp, loaded,
                     lastApplied, newestApplied, faulted>>

Next ==
    \/ ChangeField(QuickInputs(page, loaded))
    \/ Cancel
    \/ Edit
    \/ Submit(MaxOps)
    \/ Delete(MaxOps)
    \/ GetUserResolves
    \/ Serve
    \/ ListResolves
    \/ AuxListResolves
    \/ MutationResolves

Spec == Init /\ [][Next]_vars

\* the same page when the service answers every request and the browser
\* runs every continuation whose request has been answered
NextLive ==
    \/ ChangeField(QuickInputs(page, loaded))
    \/ Cancel
    \/ Edit
    \/ Submit(MaxLiveOps)
    \/ Delete(MaxLiveOps)
    \/ GetUserResolves
    \/ Serve
    \/ ListResolves
    \/ AuxListResolves
    \/ MutationResolves

SpecLive ==
    /\ Init /\ [][NextLive]_vars
    /\ WF_vars(GetUserResolves) /\ WF_vars(Serve) /\ WF_vars(ListResolves)
    /\ WF_vars(AuxListResolves) /\ WF_vars(MutationResolves)


----------------------------------------------------------------------------
(* The form in full: every input of every field, on a page whose mount     *)
(* fetches have resolved, up to the insert or update request handleSubmit   *)
(* sends.                                                                   *)

\* rows an earlier session stored through the same form
SeedRows(p) ==
    {[id |-> 1, owner |-> CurrentUser, data |-> SeedData(p)],
     [id |-> 2, owner |-> CurrentUser,
      data |-> BuildData(p, TotalEffect(p, DefaultForm(p),
                 [handleEdit(p, [data |-> SeedData(p)]) EXCEPT
                    ![CHOOSE k \in NumericFields(p) : TRUE] = 2]),
                 CurrentUser)]}

InitForm ==
    /\ clock = Noon
    /\ page \in Pages
    /\ store = SeedRows(page)
    /\ nextId = 3
    /\ records = ListRows(store, CurrentUser)
    /\ formData = DefaultForm(page)
    /\ editingId = NullId
    /\ loading = FALSE
    /\ inflight = {}
    /\ nextOp = 0
    /\ confirmed = ""
    /\ toasts = <<>>
    /\ pushed = <<>>
    /\ loaded \in SUBSET AuxTables(page)
    /\ fetches = 1
    /\ lastApplied = 1
    /\ newestApplied = 1
    /\ parents = ParentRows(page)
    /\ faulted = FALSE
    /\ filters = DefaultFilters(page)
    /\ filtered = records
    /\ stats = calculateStats(page, records, clock)

NextForm ==
    \/ ChangeField(FormInputs(page, loaded))
    \/ Cancel
    \/ Edit
    \/ Submit(MaxFormOps)
    \/ GetUserResolves

SpecForm == InitForm /\ [][NextForm]_vars

----------------------------------------------------------------------------
(* The displayed list and statistics: a page whose fetch returns any small  *)
(* record set, while the search term and the <Select> filters are changed   *)

\* what a search input is given
SearchTerms == {"", " ", "ac", "AC", "i1"}

\* purchase dates around the session's day
ViewDates == {Today - 31, Today - 29, Today - 8, Today - 7, Today - 1, Today,
              Today + 1}

\* browser clocks: midnight or noon UTC; west of, on and east of UTC; after
\* a month of 28 or of 31 days
Clocks ==
    {[now |-> Today * DayHours + h, tz |-> z, monthDays |-> m] :
       h \in {0, 12}, z \in {-5, 0, 5}, m \in {28, 31}}

\* column values of the rows the service may hold
ViewData(p) ==
    CASE p \in PartyPages ->
           {[user_id |-> CurrentUser, name |-> n, email |-> e, phone |-> ph,
             address |-> Null, balance |-> 0] :
              n \in {"Acme", "Bob"}, e \in {Null, "a@b.c"},
              ph \in {Null, "5AC"}}
      [] p = "products" ->
           {[user_id |-> CurrentUser, name |-> "Widget", category |-> c,
             quantity |-> q, price |-> 2, min_stock |-> m] :
              c \in {"Tools", "Acme"}, q \in {0, 1, 3}, m \in {0, 1, 2}}
      [] p = "purchases" ->
           {[user_id |-> CurrentUser, vendor_id |-> Null,
             vendor_name |-> "Acme", purchase_date |-> d,
             subtotal |-> IF st = "paid" THEN 3 ELSE 2,
             tax |-> IF st = "paid" THEN 1 ELSE 0,
             total |-> IF st = "paid" THEN 4 ELSE 2, status |-> st] :
              d \in ViewDates, st \in {"paid", "pending"}}
      [] p = "ledger" ->
           {[user_id |-> CurrentUser, entity_type |-> et, entity_id |-> Null,
             entity_name |-> "Bob", transaction_type |-> tt, amount |-> a] :
              et \in {"customer", "vendor"}, tt \in {"debit", "credit"},
              a \in {100, 150}}
      [] OTHER ->
           {[invoice_id |-> inv, product_id |-> Null,
             product_name |-> "Widget", quantity |-> q, price |-> 2,
             total |-> q * 2] :
              inv \in {"s1", "s2"}, q \in {1, 3}}

\* what select('*') may return: up to MaxRows rows, newest (highest id) first
ViewRecords(p) ==
    UNION {{[i \in 1..n |-> [id |-> n - i + 1, owner |-> CurrentUser,
                             data |-> ds[i]]] :
              ds \in [1..n -> ViewData(p)]} : n \in 0..MaxRows}

\* the <SelectItem> values of filter k
FilterOptions(p, k, recs) ==
    CASE k = "categoryFilter" ->
           {"all"} \cup {recs[i].data.category : i \in 1..Len(recs)}
      [] k = "stockFilter"  -> {"all", "instock", "low", "out"}
      [] k = "statusFilter" -> {"all", "paid", "pending"}
      [] k = "dateFilter"   -> {"all", "today", "week", "month"}
      [] k = "entityTypeFilter" -> {"all", "customer", "vendor"}
      [] k = "transactionTypeFilter" -> {"all", "debit", "credit"}
      [] OTHER -> {"all", "s1", "s2"}

\* onChange={(e) => setSearchTerm(e.target.value)}
ChangeSearch ==
    /\ records' = records
    /\ \E t \in SearchTerms : ViewEffects([filters EXCEPT !.searchTerm = t])
    /\ Quiet
    /\ UNCHANGED <<clock, page, parents, store, nextId, formData, editingId, loading,
                   inflight, nextOp, loaded, History>>

\* onValueChange={setStockFilter} and the like
ChangeFilter ==
    /\ records' = records
    /\ \E k \in DOMAIN filters \ {"searchTerm"} :
         \E v \in FilterOptions(page, k, records) :
           ViewEffects([filters EXCEPT ![k] = v])
    /\ Quiet
    /\ UNCHANGED <<clock, page, parents, store, nextId, formData, editingId, loading,
                   inflight, nextOp, loaded, History>>

\* the mount fetch awaits its list request, which the service has answered
InitView ==
    /\ page \in Pages
    /\ clock \in IF page = "purchases" THEN Clocks ELSE {Noon}
    /\ \E data \in ViewRecords(page) :
         /\ store = {data[i] : i \in 1..Len(data)}
         /\ nextId = Len(data) + 1
         /\ inflight =
              {[AwaitCall(AwaitUser(0, "fetch", page, DefaultForm(page),
                                    NullId, NullId, 1),
                          "list", NullId, {}, <<>>)
                  EXCEPT !.served = TRUE, !.data = data]}
    /\ records = <<>>
    /\ formData = DefaultForm(page)
    /\ editingId = NullId
    /\ loading = TRUE
    /\ nextOp = 0
    /\ confirmed = ""
    /\ toasts = <<>>
    /\ pushed = <<>>
    /\ loaded = AuxTables(page)
    /\ fetches = 1
    /\ lastApplied = 0
    /\ newestApplied = 0
    /\ parents = ParentRows(page)
    /\ faulted = FALSE
    /\ filters = DefaultFilters(page)
    /\ filtered = <<>>
    /\ stats = calculateStats(page, <<>>, clock)

NextView ==
    \/ ChangeSearch
    \/ ChangeFilter
    \/ ListResolves

SpecView == InitView /\ [][NextView]_vars

----------------------------------------------------------------------------
(* Properties *)

\* handler h leaves inflight in this step: the request it awaited resolved
Resolves(h) == h \in inflight /\ h \notin inflight'

\* handlers suspended at a request this step has sent
Sent == {g \in inflight' \ inflight : ~g.served}

\* a fetch of the page's table whose list request has returned rows
ListReturned(h) ==
    h.fn = "fetch" /\ h.call = "list" /\ h.served /\ ~h.error

\* C1: every update and every delete request is restricted to the record id
\* and to rows owned by the current user (owner filter = the user's id), and
\* every inserted row carries user_id = the current user's id.
C1_TenantIsolation ==
    \A h \in inflight :
      /\ h.call \in {"update", "delete"} =>
           h.eqId # NullId /\ h.eqUser = {CurrentUser}
      /\ h.call = "insert" =>
           "user_id" \in DOMAIN h.row[1] /\ h.row[1].user_id = CurrentUser

\* C2: on the sale-item and purchase-item pages formData.total is
\* quantity * price in every settled state of the form, and every record
\* passed to insert or update carries total = its quantity * its price.
C2_LineTotalDerived ==
    page \in ItemPages =>
      /\ formData.total = formData.quantity * formData.price
      /\ \A h \in inflight :
           h.call \in {"insert", "update"} =>
             h.row[1].total = h.row[1].quantity * h.row[1].price

\* a stored item was loaded, its price retyped, and the update sent
C2_Witness ==
    /\ page \in ItemPages
    /\ \E h \in inflight :
         /\ h.call = "update"
         /\ h.row[1].quantity = 3 /\ h.row[1].price = 3 /\ h.row[1].total = 9

\* C3: on the purchase page formData.total is subtotal + tax in every
\* settled state of the form, and every record passed to insert or update
\* carries total = its subtotal + its tax.
C3_InvoiceTotalDerived ==
    page = "purchases" =>
      /\ formData.total = formData.subtotal + formData.tax
      /\ \A h \in inflight :
           h.call \in {"insert", "update"} =>
             h.row[1].total = h.row[1].subtotal + h.row[1].tax

\* a stored purchase was loaded, its tax retyped, and the update sent
C3_Witness ==
    /\ page = "purchases"
    /\ \E h \in inflight :
         /\ h.call = "update"
         /\ h.row[1].subtotal = 3 /\ h.row[1].tax = 2 /\ h.row[1].total = 5

\* C4: when a list request returns an error the record set keeps its value;
\* when insert, update or delete returns an error the form data, editingId
\* and record set are unchanged, no refetch and no retry is started, and
\* exactly one error notification is emitted.
C4_FailedCallKeepsState ==
    [][\A h \in inflight :
         (Resolves(h) /\ h.served /\ h.error) =>
           /\ records' = records
           /\ h.call \in Writes =>
                /\ formData' = formData
                /\ editingId' = editingId
                /\ inflight' = inflight \ {h}
                /\ Len(toasts') = 1
                /\ toasts'[1].level = "error"]_vars

\* an update of a loaded record has failed; the form still holds the edit
C4_Witness ==
    /\ toasts = <<Toast("error", "Failed")>>
    /\ editingId # NullId
    /\ formData # DefaultForm(page)

\* C5: in every operation (fetch, submit, delete) in which getUser returns
\* an error or no user, the page calls router.push('/login').
C5_AuthFailureRedirects ==
    [][\A h \in inflight :
         (/\ h.call = "getUser"
          /\ h.fn \in {"fetch", "submit", "delete"}
          /\ Resolves(h)
          /\ ~\E g \in Sent : g.op = h.op /\ g.fn = h.fn)
         => pushed' = <<"/login">>]_vars

\* C6 as stated: every insert, update or delete that returns without error
\* is followed by a list request for the page's table (the fetch it starts
\* never ends without having sent one), and the record set changes only by
\* applying the result of a list request.
C6_ListRequestFollows ==
    [][/\ \A h \in inflight :
            (h.call \in Writes /\ h.served /\ ~h.error /\ Resolves(h)) =>
              \E g \in Sent : g.fn = "fetch" /\ g.op = h.op /\ g.table = page
       /\ \A h \in inflight :
            (h.fn = "fetch" /\ h.op > 0 /\ h.call = "getUser" /\ Resolves(h)) =>
              \E g \in Sent : g.call = "list" /\ g.op = h.op /\ g.table = page
       /\ records' # records =>
            \E h \in inflight :
              ListReturned(h) /\ Resolves(h) /\ records' = h.data]_vars

\* C6, amended: every insert, update or delete that returns without error
\* starts the page's fetch in the same step; that fetch sends the list
\* request for the page's table once its own getUser has returned a user;
\* and the record set changes only by applying the result of a list request.
C6_RefetchAfterMutation ==
    [][/\ \A h \in inflight :
            (h.call \in Writes /\ h.served /\ ~h.error /\ Resolves(h)) =>
              \E g \in Sent : /\ g.fn = "fetch" /\ g.call = "getUser"
                              /\ g.op = h.op /\ g.table = page
       /\ \A h \in inflight :
            (/\ h.fn = "fetch" /\ h.op > 0 /\ h.call = "getUser"
             /\ Resolves(h)
             /\ toasts' # <<Toast("error", "Authentication Error")>>) =>
              \E g \in Sent : g.call = "list" /\ g.op = h.op /\ g.table = page
       /\ records' # records =>
            \E h \in inflight :
              ListReturned(h) /\ Resolves(h) /\ records' = h.data]_vars

\* a write has succeeded, its refetch awaits the list, and the record set
\* still shows the rows of before the write
C6_Witness ==
    /\ \E g \in inflight : g.fn = "fetch" /\ g.op > 0 /\ g.call = "list"
    /\ \A g \in inflight : g.call \notin Writes
    /\ records # ListRows(store, CurrentUser)

\* C7: a fetch is never cancelled: whenever the list request of a fetch
\* returns rows they become the record set, also when a fetch started later
\* has been applied already, and nothing else changes the record set; so
\* the record set is the data of the fetch that resolved last.
C7_SupersededFetchApplied ==
    [][/\ \A h \in inflight :
            (ListReturned(h) /\ Resolves(h)) => records' = h.data
       /\ (\A h \in inflight : ~(ListReturned(h) /\ Resolves(h))) =>
            records' = records]_vars

\* both fetches have resolved, the one started first resolved last, and its
\* older rows are the record set
C7_Witness ==
    /\ lastApplied < newestApplied
    /\ \A h \in inflight : h.fn # "fetch"
    /\ records # ListRows(store, CurrentUser)

\* C8: one operation never has two requests in flight (the mount effect's
\* fetches are one operation per table), a list or write request is sent
\* only when the getUser of the same handler resolves, and a refetch starts
\* only when the write of the same operation resolves.
C8_SequentialRequests ==
    /\ [](\A h1, h2 \in inflight :
            (h1.op = h2.op /\ h1.table = h2.table) => h1 = h2)
    /\ [][\A g \in Sent :
            /\ g.call # "getUser" =>
                 \E h \in inflight :
                   /\ Resolves(h) /\ h.call = "getUser"
                   /\ h.op = g.op /\ h.fn = g.fn /\ h.table = g.table
            /\ (g.call = "getUser" /\ g.fn = "fetch") =>
                 \E h \in inflight :
                   /\ Resolves(h) /\ h.call \in Writes /\ h.served
                   /\ h.op = g.op]_vars

\* the refetch of one operation and a request of the next are in flight
C8_Witness ==
    \E h1, h2 \in inflight :
      /\ h1.fn = "fetch" /\ h1.op > 0
      /\ h2.op > h1.op /\ h2.call \in Writes

\* C9: when validateForm reports a violation handleSubmit sends no getUser,
\* insert or update request (no handleSubmit starts on such a form, and the
\* form every suspended handleSubmit carries is valid) and leaves loading,
\* form data, editingId and the record set unchanged: the validation error
\* notification is the only effect.
C9_ValidationBlocks ==
    /\ [](\A h \in inflight :
            h.fn = "submit" => validateForm(page, h.form) = <<>>)
    /\ [][validateForm(page, formData) # <<>> =>
            /\ ~\E g \in Sent : g.fn = "submit" /\ g.call = "getUser"
            /\ (toasts' # <<>> /\ toasts'[1].title = "Validation Error") =>
                 /\ UNCHANGED <<loading, formData, editingId, records,
                                inflight, store>>
                 /\ pushed' = <<>>
                 /\ toasts' =
                      <<ValidationToast(validateForm(page, formData)[1])>>]_vars

\* a partly filled form was submitted and rejected
C9_Witness ==
    /\ toasts # <<>>
    /\ toasts[1].title = "Validation Error"
    /\ formData # DefaultForm(page)
    /\ ~loading

\* C10: validateForm reports nothing for a form that violates no rule, and
\* otherwise exactly one violation: the first violated rule in the declared
\* order (for a product: name, category, price, quantity, min_stock).
C10_FailFastInOrder ==
    LET broken == BrokenRules(page, formData)
        first == CHOOSE i \in broken : \A j \in broken : i <= j
        expected == IF broken = {} THEN <<>>
                    ELSE <<RuleMessage(page, RuleOrder(page)[first])>>
    IN /\ validateForm(page, formData) = expected
       /\ (toasts # <<>> /\ toasts[1].title = "Validation Error") =>
            toasts = <<ValidationToast(expected[1])>>

\* a product form with no name and no price was submitted: only the name
\* rule is reported
C10_Witness ==
    /\ page = "products"
    /\ formData.name = ""
    /\ formData.price = 0
    /\ {1, 3} \subseteq BrokenRules(page, formData)
    /\ toasts = <<ValidationToast("Product name is required.")>>

\* C11: every record passed to insert or update satisfies the numeric rules
\* of its page: product price > 0, quantity >= 0, min_stock >= 0; line-item
\* quantity > 0 and price > 0; ledger amount > 0; purchase subtotal > 0 and
\* tax >= 0; vendor balance >= 0.
C11_RecordsSatisfyNumericRules ==
    \A h \in inflight :
      h.call \in {"insert", "update"} =>
        LET r == h.row[1] IN
        CASE page = "products" ->
               r.price > 0 /\ r.quantity >= 0 /\ r.min_stock >= 0
          [] page \in ItemPages -> r.quantity > 0 /\ r.price > 0
          [] page = "ledger"    -> r.amount > 0
          [] page = "purchases" -> r.subtotal > 0 /\ r.tax >= 0
          [] page = "vendors"   -> r.balance >= 0
          [] OTHER              -> TRUE

\* a product typed with a non-numeric quantity and a price of 3 is inserted
\* with quantity 0
C11_Witness ==
    /\ page = "products"
    /\ \E h \in inflight :
         /\ h.call = "insert"
         /\ h.row[1].price = 3 /\ h.row[1].quantity = 0
         /\ h.row[1].min_stock = 2

\* C12: entering a non-numeric or an empty quantity or price in a line-item
\* form makes that operand 0, so that the total the effect computes is 0.
C12_NonNumericIsZero ==
    page \in ItemPages =>
      \A e \in FormInputs(page, loaded) :
        (e.field \in {"quantity", "price"} /\ e.value \in {"", "abc"}) =>
          LET f == TotalEffect(page, formData,
                               onChange(page, formData, loaded, e))
          IN f[e.field] = 0 /\ f.total = 0

\* C13: when the user declines the confirm prompt handleDelete sends no
\* request and leaves loading, the record set, form data and editingId
\* unchanged; a handleDelete starts, and a delete request is sent, only
\* after a confirmed prompt.
C13_DeleteNeedsConfirmation ==
    /\ [](\A h \in inflight : h.call = "delete" => h.fn = "delete")
    /\ [][/\ confirmed' = "no" =>
               UNCHANGED <<loading, records, formData, editingId, inflight,
                           store>>
          /\ (\E g \in Sent : g.fn = "delete" /\ g.call = "getUser") =>
               confirmed' = "yes"]_vars

\* the prompt was declined while a record is displayed
C13_Witness ==
    /\ confirmed = "no"
    /\ Len(records) > 0
    /\ ~loading

\* the sum of column field over the rows of recs at the positions idx,
\* taken in no particular order
RECURSIVE SumAt(_, _, _)
SumAt(recs, idx, field) ==
    IF idx = {} THEN 0
    ELSE LET i == CHOOSE i \in idx : TRUE
         IN recs[i].data[field] + SumAt(recs, idx \ {i}, field)

\* C14: for every product with quantity >= 0 and min_stock >= 0 the badge
\* is exactly one of Out of Stock (quantity = 0, whatever min_stock is),
\* Low Stock (0 < quantity <= min_stock) and In Stock (quantity > min_stock).
C14_StockPartition ==
    page = "products" =>
      \A i \in 1..Len(records) :
        LET q == records[i].data.quantity
            m == records[i].data.min_stock
            b == getStockBadge(q, m)
        IN (q >= 0 /\ m >= 0) =>
             /\ b \in {"Out of Stock", "Low Stock", "In Stock"}
             /\ (b = "Out of Stock") <=> (q = 0)
             /\ (b = "Low Stock") <=> (0 < q /\ q <= m)
             /\ (b = "In Stock") <=> (q > m)

\* products with quantity 0 and min_stock 0, and with quantity 1 and
\* min_stock 2, are displayed
C14_Witness ==
    /\ page = "products"
    /\ Len(records) = 2
    /\ records[1].data.quantity = 0 /\ records[1].data.min_stock = 0
    /\ records[2].data.quantity = 1 /\ records[2].data.min_stock = 2

\* C15: with stockFilter 'out', 'low' or 'instock' (and no other filter
\* active) the filtered list is exactly the products whose badge is Out of
\* Stock, Low Stock or In Stock respectively.
C15_StockFilterMatchesBadge ==
    (/\ page = "products"
     /\ filters.stockFilter # "all"
     /\ filters.categoryFilter = "all"
     /\ Trim(filters.searchTerm) = "") =>
      LET status == CASE filters.stockFilter = "out" -> "Out of Stock"
                      [] filters.stockFilter = "low" -> "Low Stock"
                      [] OTHER -> "In Stock"
          Same(r) == getStockBadge(r.data.quantity, r.data.min_stock) = status
      IN filtered = SelectSeq(records, Same)

\* C16: the ledger stats are the sum of amount over the debit entries, the
\* sum of amount over the credit entries and credits less debits, over the
\* whole record set and whatever the order of the entries.
C16_LedgerStats ==
    page = "ledger" =>
      LET debits == {i \in 1..Len(records) :
                       records[i].data.transaction_type = "debit"}
          credits == {i \in 1..Len(records) :
                        records[i].data.transaction_type = "credit"}
      IN /\ stats.totalDebits = SumAt(records, debits, "amount")
         /\ stats.totalCredits = SumAt(records, credits, "amount")
         /\ stats.netBalance = stats.totalCredits - stats.totalDebits

\* a debit of 100 and a credit of 150 give 100, 150 and 50, while a filter
\* hides the debit
C16_Witness ==
    /\ page = "ledger"
    /\ Len(records) = 2
    /\ records[1].data.transaction_type = "debit"
    /\ records[1].data.amount = 100
    /\ records[2].data.transaction_type = "credit"
    /\ records[2].data.amount = 150
    /\ stats = [totalDebits |-> 100, totalCredits |-> 150, netBalance |-> 50]
    /\ Len(filtered) = 1

\* C17: the purchase stats are the sum of total over all purchases, over
\* the purchases dated today (the browser's calendar day) and over the
\* pending purchases; so today's and the pending amount are at most the
\* total.
C17_PurchaseStats ==
    page = "purchases" =>
      LET all == 1..Len(records)
          today == toDateString(clock.now, clock)
      IN /\ stats.totalPurchases = SumAt(records, all, "total")
         /\ stats.todayPurchases =
              SumAt(records,
                    {i \in all : records[i].data.purchase_date = today},
                    "total")
         /\ stats.pendingAmount =
              SumAt(records, {i \in all : records[i].data.status = "pending"},
                    "total")
         /\ stats.todayPurchases <= stats.totalPurchases
         /\ stats.pendingAmount <= stats.totalPurchases

\* the filters of the page that are active, and whether row r satisfies
\* the predicate of filter k
ActiveFilters(flt) ==
    {k \in DOMAIN flt :
       IF k = "searchTerm" THEN Trim(flt[k]) # "" ELSE flt[k] # "all"}

Satisfies(p, r, k, flt, c) ==
    CASE k = "searchTerm"       -> SearchHit(p, r, flt[k])
      [] k = "categoryFilter"   -> r.data.category = flt[k]
      [] k = "stockFilter"      -> StockKeeps(flt[k], r.data)
      [] k = "statusFilter"     -> r.data.status = flt[k]
      [] k = "dateFilter"       -> DateKeeps(flt[k], r.data.purchase_date, c)
      [] k = "entityTypeFilter" -> r.data.entity_type = flt[k]
      [] k = "transactionTypeFilter" -> r.data.transaction_type = flt[k]
      [] OTHER                  -> r.data.invoice_id = flt[k]

\* C18: the filtered list is exactly the records of the record set, in
\* their order, that satisfy every active predicate; a filter set to 'all'
\* and an empty or blank search term are inactive.
C18_FilterIsConjunction ==
    LET Every(r) == \A k \in ActiveFilters(filters) :
                      Satisfies(page, r, k, filters, clock)
    IN filtered = SelectSeq(records, Every)

\* two filters are active; they keep one record and remove the other
C18_Witness ==
    /\ Cardinality(ActiveFilters(filters)) >= 2
    /\ Len(records) = 2
    /\ Len(filtered) = 1

\* C19: with only the date filter active, 'today' keeps exactly the
\* purchases dated today, 'week' exactly those dated within the last 7 days
\* and 'month' exactly those dated within the last 30 days.
C19_DateWindows ==
    (/\ page = "purchases"
     /\ filters.dateFilter # "all"
     /\ filters.statusFilter = "all"
     /\ Trim(filters.searchTerm) = "") =>
      LET today == toDateString(clock.now, clock)
          first == CASE filters.dateFilter = "today" -> today
                     [] filters.dateFilter = "week"  -> today - 7
                     [] OTHER                        -> today - 30
          InWindow(r) == /\ first <= r.data.purchase_date
                         /\ r.data.purchase_date <= today
      IN filtered = SelectSeq(records, InWindow)

\* C20: a handleSubmit whose getUser returned a user sends exactly one
\* write: an update of the record whose id was editingId when the form was
\* submitted, or an insert when editingId was null; the form it carries has
\* passed validateForm either way.
C20_CreateOrUpdate ==
    /\ [](\A h \in inflight :
            h.fn = "submit" =>
              /\ validateForm(page, h.form) = <<>>
              /\ h.call = "update" => (h.editing # NullId /\ h.eqId = h.editing)
              /\ h.call = "insert" => h.editing = NullId
              /\ h.call \in {"getUser", "insert", "update"})
    /\ [][/\ \A g \in Sent :
               (g.fn = "submit" /\ g.call = "getUser") => g.editing = editingId
          /\ \A h \in inflight :
               (/\ h.fn = "submit" /\ h.call = "getUser" /\ Resolves(h)
                /\ toasts' # <<Toast("error", "Authentication Error")>>) =>
                 /\ Cardinality({g \in Sent : g.op = h.op}) = 1
                 /\ \A g \in Sent :
                      g.op = h.op =>
                        g.call = IF h.editing # NullId THEN "update"
                                 ELSE "insert"]_vars

\* the update request for the edited record 1 has been sent and served
C20_Witness ==
    \E h \in inflight :
      /\ h.fn = "submit" /\ h.call = "update"
      /\ h.eqId = 1 /\ h.served
      /\ nextOp = 2

\* a handler of the page's own operations (not of a selection list)
PageHandler(h) == h.fn \in {"fetch", "submit", "delete"}

\* C21: when getUser fails in a fetch, submit or delete handler, the
\* handler ends there: it sends no list, insert, update or delete request
\* and does not start again, the record set, form data and editingId keep
\* their values, and loading is false.
C21_AuthErrorIsTerminal ==
    [][\A h \in inflight :
         (/\ PageHandler(h) /\ h.call = "getUser" /\ Resolves(h)
          /\ toasts' = <<Toast("error", "Authentication Error")>>) =>
           /\ inflight' = inflight \ {h}
           /\ records' = records
           /\ formData' = formData
           /\ editingId' = editingId
           /\ loading' = FALSE]_vars

\* the getUser of a submit of an edited record has failed: nothing is in
\* flight and the form still holds the edit
C21_Witness ==
    /\ toasts = <<Toast("error", "Authentication Error")>>
    /\ pushed = <<>>
    /\ nextOp = 1
    /\ \A h \in inflight : ~PageHandler(h)
    /\ editingId # NullId
    /\ ~loading

\* C22: the search predicate gives the same answer for two search terms
\* that differ only in the case of their letters, for every displayed
\* record and every searched field.
C22_SearchIgnoresCase ==
    \A i \in 1..Len(records) :
      \A t, u \in SearchTerms :
        toLowerCase(Text(t)) = toLowerCase(Text(u)) =>
          (SearchHit(page, records[i], t) <=> SearchHit(page, records[i], u))

\* C23: whenever a request of one of the page's fetch, submit or delete
\* handlers is unresolved, loading is true.
C23_LoadingCoversRequests ==
    (\E h \in inflight : PageHandler(h)) => loading

\* C24: once no request is in flight (and none has returned an error) the
\* record set is the rows the service holds for the page's table.
C24_QuiescentSnapshot ==
    (inflight = {} /\ ~faulted) => records = ListRows(store, CurrentUser)

\* C25: editingId is null or the id of a record of the record set.
C25_EditingIdPresent ==
    \/ editingId = NullId
    \/ \E i \in 1..Len(records) : records[i].id = editingId

\* C26: when every request is eventually answered, loading always becomes
\* false again, and it is false whenever no fetch, submit or delete handler
\* is pending.
C26_NoStuckSpinner ==
    /\ []((\A h \in inflight : ~PageHandler(h)) => ~loading)
    /\ (loading ~> ~loading)

\* a delete has failed, nothing is pending and the spinner is off
C26_Witness ==
    /\ toasts = <<Toast("error", "Failed")>>
    /\ nextOp = MaxLiveOps
    /\ inflight = {}
    /\ ~loading

\* C27: when the insert or update of handleSubmit returns without error,
\* the form data are the page's default values and editingId is null.
C27_SubmitReturnsToCreateMode ==
    [][\A h \in inflight :
         (/\ h.fn = "submit" /\ h.call \in {"insert", "update"}
          /\ h.served /\ ~h.error /\ Resolves(h)) =>
           /\ formData' = DefaultForm(page)
           /\ editingId' = NullId]_vars

\* the update of the stored record has succeeded and the form is empty
C27_Witness ==
    /\ toasts = <<Toast("success", "Done")>>
    /\ nextOp = 1
    /\ \E r \in store : r.id \in SeedIds /\ r.data # SeedData(page)
    /\ formData = DefaultForm(page)
    /\ editingId = NullId

\* C28: when the insert, update or delete request of a handler resolves,
\* the handler emits exactly one notification: a success if the request
\* returned no error, an error otherwise.
C28_OneOutcomeNotification ==
    [][\A h \in inflight :
         (h.call \in Writes /\ h.served /\ Resolves(h)) =>
           /\ Len(toasts') = 1
           /\ (toasts'[1].level = "success") <=> ~h.error
           /\ (toasts'[1].level = "error") <=> h.error]_vars

\* the delete of the stored record has succeeded and was notified
C28_Witness ==
    /\ toasts = <<Toast("success", "Done")>>
    /\ nextOp = 1
    /\ store = {}

\* C29: a step that changes the search term or a filter leaves the
\* statistics unchanged; the statistics change only in a step that changes
\* the record set.
C29_StatsIgnoreFilters ==
    [][/\ filters' # filters => stats' = stats
       /\ stats' # stats => records' # records]_vars

\* a filter hides a record, and the statistics are those of the whole
\* record set, not of the filtered list
C29_Witness ==
    /\ page \in {"ledger", "purchases"} \cup ItemPages
    /\ Len(filtered) < Len(records)
    /\ filters # DefaultFilters(page)
    /\ stats = calculateStats(page, records, clock)
    /\ stats # calculateStats(page, filtered, clock)

\* C30: on the item pages every request of handleSubmit, handleDelete and
\* the fetch they start is made on the item table, and the rows of the
\* parent table keep their subtotal, tax and total.
C30_ParentUntouched ==
    /\ [](page \in ItemPages =>
            \A h \in inflight : PageHandler(h) => h.table = page)
    /\ [][parents' = parents]_vars

\* an item has been inserted and another updated or deleted; the parent
\* row is as it was
C30_Witness ==
    /\ page \in ItemPages
    /\ nextOp = 2
    /\ inflight = {}
    /\ store # {[id |-> i, owner |-> CurrentUser, data |-> SeedData(page)] :
                  i \in SeedIds}
    /\ \E r \in store : r.id \notin SeedIds
    /\ parents = ParentRows(page)

====
